---- MODULE Spec2Model ----
(***************************************************************************)
(* The file spool of gmail-smtp-mcp: producers that enqueue payload files  *)
(* into spool/pending (scripts/spool_utils.py queue_payload and server.py  *)
(* _queue_payload_file) and the single drainer (scripts/run_spool.py,      *)
(* scripts/deliver_spool.py) that lists the pending files, delivers each   *)
(* payload and moves the entry to spool/sent or spool/failed.              *)
(*                                                                         *)
(* A file is modelled by the text handed to write_text together with the   *)
(* number of chunks of it that have reached the directory so far:          *)
(* Path.write_text opens the file (creating or truncating it), writes and  *)
(* closes, so a file exists with 0..size chunks before it is complete.     *)
(*                                                                         *)
(* The send operation of server.py (gmail_send_email_with_attachments,     *)
(* _build_message) and its helpers _safe_template and                      *)
(* _build_calendar_invite are modelled call by call, with strings as       *)
(* sequences of characters: SpecSend, SpecRender, SpecInvite. The SMTP     *)
(* session of _send_email_sync is SpecSession, the drain loop of           *)
(* run_spool.py main(), with its fairness, SpecLoop.                       *)
(***************************************************************************)
EXTENDS Integers, Sequences, FiniteSets, TLC

\* ------------------------------------------------------------------ bounds
MaxEntries == 2     \* enqueue calls over a run
NumProducers == 2   \* concurrent writers
NumHex == 2         \* distinct uuid4 values that can be drawn
StartTime == 10     \* int(time.time()) at the start of the run
MaxTime == 11       \* last clock value reached
WriteChunks == 1    \* write(2) calls one write_text needs
MaxLimit == 2       \* largest --limit tried
MaxCrashes == 1     \* process interruptions over a run
MaxPasses == 2      \* drain passes over a run

Producers == 1..NumProducers
Hexes == 0..(NumHex - 1)
Times == StartTime..MaxTime

\* ------------------------------------------------------------ entry names
\* file_name = f"{int(time.time())}-{uuid.uuid4().hex}.json"
Names == [sec : Times, hex : Hexes]
NoName == [sec |-> 0, hex |-> 0]

RECURSIVE Digits(_)
\* str(int): the decimal digits of n as character codes ('0' is 48)
Digits(n) == IF n < 10 THEN <<48 + n>> ELSE Digits(n \div 10) \o <<48 + (n % 10)>>

\* one hex digit as a character code ('0'..'9' are 48..57, 'a'..'f' are 97..102)
HexChar(h) == IF h < 10 THEN 48 + h ELSE 97 + (h - 10)

\* the characters of "{sec}-{hex}.json" ('-' is 45, ".json" is 46 106 115 111 110)
FileName(n) == Digits(n.sec) \o <<45>> \o <<HexChar(n.hex)>> \o <<46, 106, 115, 111, 110>>

RECURSIVE StrLess(_, _)
\* Python's str < str: lexicographic on code points, a proper prefix is smaller
StrLess(a, b) ==
    IF Len(b) = 0 THEN FALSE
    ELSE IF Len(a) = 0 THEN TRUE
    ELSE IF Head(a) # Head(b) THEN Head(a) < Head(b)
    ELSE StrLess(Tail(a), Tail(b))

\* Path < Path inside one directory compares the file names
PathLess(m, n) == StrLess(FileName(m), FileName(n))

RECURSIVE Sorted(_)
\* sorted(paths): ascending by PathLess
Sorted(S) ==
    IF S = {} THEN <<>>
    ELSE LET least == CHOOSE m \in S : \A n \in S \ {m} : PathLess(m, n)
         IN <<least>> \o Sorted(S \ {least})

\* the elements of a list
Range(seq) == {seq[i] : i \in 1..Len(seq)}
Min(a, b) == IF a < b THEN a ELSE b
Max(a, b) == IF a > b THEN a ELSE b

\* --------------------------------------------------------------- payloads
\* What the spool needs of a payload: the `to` list, and how the calendar
\* timestamps are held: absent, ISO strings (scripts/payloads/*.py) or datetime
\* objects (calendar_event.model_dump() in gmail_queue_email_with_attachments).
Payloads == [to : {<<>>, <<"r@x.com">>}, cal : {"none", "iso", "datetime"}]

\* the metadata argument: None, or a dict
NoneMd == [given |-> FALSE, source |-> ""]
ToolMd == [given |-> TRUE, source |-> "mcp-tool"]
Metadatas == {NoneMd, ToolMd}
EmptyDict == [given |-> TRUE, source |-> ""]

\* the enqueue calls tried: queue_payload(payload) from a script, and the queue
\* tool, which passes metadata {"source": "mcp-tool"} and dumps a calendar
\* event with its datetime fields
Requests ==
    { [payload |-> [to |-> <<"r@x.com">>, cal |-> "none"], metadata |-> NoneMd],
      [payload |-> [to |-> <<>>, cal |-> "none"], metadata |-> ToolMd],
      [payload |-> [to |-> <<"r@x.com">>, cal |-> "datetime"], metadata |-> ToolMd] }

\* `metadata or {}`
MetadataOrEmpty(md) == IF md.given THEN md ELSE EmptyDict

\* the entry dict built by queue_payload
NewEntry(payload, md, t) ==
    [schema_version |-> 1, queued_at |-> t, metadata |-> MetadataOrEmpty(md), payload |-> payload]

\* json.dumps raises TypeError on a datetime object anywhere in the entry
Serializable(entry) == entry.payload.cal # "datetime"

\* json.dumps(entry, indent=2): the text, as the document it denotes and the
\* number of chunks it takes to write; none of it is written yet
JsonDumps(entry) == [text |-> entry, len |-> 0, size |-> WriteChunks]

\* json.loads accepts a text only when all of it is there; a truncated text
\* raises JSONDecodeError
Complete(content) == content.len = content.size

\* json.loads(path.read_text()) of a complete text: the document
JsonLoads(content) == content.text

\* ------------------------------------------------------------- file system
Put(dir, n, content) == [m \in DOMAIN dir \cup {n} |-> IF m = n THEN content ELSE dir[m]]
Remove(dir, n) == [m \in DOMAIN dir \ {n} |-> dir[m]]
EmptyDir == [m \in {} |-> 0]

VARIABLES
    pending,    \* spool/pending: name -> file content
    sent,       \* spool/sent
    failed,     \* spool/failed
    now,        \* the clock, whole seconds
    usedHex,    \* uuid4 values drawn so far
    prod,       \* per producer: position in queue_payload and its locals
    drain,      \* the drainer: position in process_pending and its locals
    enq,        \* history: name -> entry, for every enqueue that returned
    enqOrder,   \* history: names in the order their enqueue returned
    tx,         \* history: name -> number of SMTP transmissions of its message
    hist,       \* history: counters and per-run observations
    call        \* one call of the send operation or of one of its helpers

vars == <<pending, sent, failed, now, usedHex, prod, drain, enq, enqOrder, tx, hist, call>>

\* ------------------------------------------------------------------- Init
DefaultPayload == [to |-> <<>>, cal |-> "none"]
DefaultEntry == NewEntry(DefaultPayload, NoneMd, 0)
NoContent == [text |-> DefaultEntry, len |-> 0, size |-> 0]
NoOutcome == [ok |-> FALSE, transmitted |-> FALSE, result |-> [accepted |-> <<>>], error |-> ""]
NoLimit == MaxLimit + 100   \* stands for limit=None

IdleProducer == [pc |-> "idle", entry |-> DefaultEntry, name |-> NoName]

IdleDrain ==
    [pc |-> "idle", script |-> "run_spool", limit |-> NoLimit, dry_run |-> FALSE,
     listing |-> <<>>, files |-> <<>>, idx |-> 1, count |-> 0,
     name |-> NoName, read |-> NoContent,
     outcome |-> NoOutcome, step |-> 0, record |-> DefaultEntry, returned |-> FALSE]

\* no send call is being looked at
NoCall == [op |-> "none"]

\* the spool after ensure_spool_dirs(), all processes outside their calls
SpoolInit ==
    /\ pending = EmptyDir
    /\ sent = EmptyDir
    /\ failed = EmptyDir
    /\ now = StartTime
    /\ usedHex = {}
    /\ prod = [p \in Producers |-> IdleProducer]
    /\ drain = IdleDrain
    /\ enq = EmptyDir
    /\ enqOrder = <<>>
    /\ tx = [n \in Names |-> 0]
    /\ hist = [started |-> 0, crashes |-> 0, passes |-> 0,
               resent |-> {}, clobbered |-> {}, removed |-> {},
               attempts |-> [n \in Names |-> 0], uncounted |-> {}, zero_count |-> {}]

Init == SpoolInit /\ call = NoCall

\* ------------------------------------------------------------------ clock
Tick ==
    /\ now < MaxTime
    /\ now' = now + 1
    /\ UNCHANGED <<pending, sent, failed, usedHex, prod, drain, enq, enqOrder, tx, hist, call>>

\* -------------------------------------------------------------- producers
\* a generator that can repeat a value it has drawn before
Uuid4Repeats(used) == Hexes

\* uuid.uuid4(): a value never drawn before
Uuid4(used) == Hexes \ used

\* Producers are interchangeable: producer p + 1 is only used while producer p
\* is inside a call
MayCall(p) ==
    /\ prod[p].pc \in {"idle", "raised"}
    /\ hist.started < MaxEntries
    /\ \A q \in Producers : q < p => prod[q].pc = "writing"

\* queue_payload is called and json.dumps raises TypeError: the call fails
\* before write_text opens a file
EnqueueTypeError(p, req) ==
    /\ MayCall(p)
    /\ ~Serializable(NewEntry(req.payload, req.metadata, now))
    /\ prod' = [prod EXCEPT ![p] = [pc |-> "raised", entry |-> DefaultEntry,
                                    name |-> NoName]]
    /\ hist' = [hist EXCEPT !.started = @ + 1]
    /\ UNCHANGED <<pending, sent, failed, now, usedHex, drain, enq, enqOrder, tx, call>>

\* queue_payload is called: the entry is built, the name is chosen, the text is
\* produced and write_text opens the file for writing (creating it empty, or
\* truncating a file of that name)
EnqueueOpen(p, req) ==
    /\ MayCall(p)
    /\ Serializable(NewEntry(req.payload, req.metadata, now))
    /\ \E h \in Uuid4(usedHex) :
         LET n == [sec |-> now, hex |-> h]
             entry == NewEntry(req.payload, req.metadata, now)
         IN /\ pending' = Put(pending, n, JsonDumps(entry))
            /\ prod' = [prod EXCEPT ![p] = [pc |-> "writing", entry |-> entry, name |-> n]]
            /\ usedHex' = usedHex \cup {h}
    /\ hist' = [hist EXCEPT !.started = @ + 1]
    /\ UNCHANGED <<sent, failed, now, drain, enq, enqOrder, tx, call>>

\* the entry was built by gmail_queue_email_with_attachments
FromTool(entry) == entry.metadata.source = "mcp-tool"

\* write_text writes the next chunk; after the last one the file is closed and
\* queue_payload returns the path, to its caller or to the queue tool
EnqueueWrite(p) ==
    /\ prod[p].pc = "writing"
    /\ prod[p].name \in DOMAIN pending
    /\ LET n == prod[p].name
           c == pending[n]
       IN /\ c.len < c.size
          /\ pending' = [pending EXCEPT ![n].len = @ + 1]
          /\ IF c.len + 1 = c.size
             THEN /\ prod' = [prod EXCEPT ![p].pc = IF FromTool(prod[p].entry) THEN "count"
                                                   ELSE "idle"]
                  /\ enq' = Put(enq, n, prod[p].entry)
                  /\ enqOrder' = Append(enqOrder, n)
             ELSE UNCHANGED <<prod, enq, enqOrder>>
    /\ UNCHANGED <<sent, failed, now, usedHex, drain, tx, hist, call>>

\* gmail_queue_email_with_attachments lines 902-903: pending_count is the
\* number of files in pending when the tool, back from _queue_payload_file,
\* lists the directory; the tool returns
QueueCount(p) ==
    /\ prod[p].pc = "count"
    /\ LET n == prod[p].name
           pending_count == Cardinality(DOMAIN pending)
       IN hist' = [hist EXCEPT
                     !.uncounted = IF n \notin DOMAIN pending THEN @ \cup {n} ELSE @,
                     !.zero_count = IF pending_count = 0 THEN @ \cup {n} ELSE @]
    /\ prod' = [prod EXCEPT ![p].pc = "idle"]
    /\ UNCHANGED <<pending, sent, failed, now, usedHex, drain, enq, enqOrder, tx, call>>

\* the producer process is interrupted inside write_text
ProducerCrash(p) ==
    /\ prod[p].pc = "writing"
    /\ hist.crashes < MaxCrashes
    /\ prod' = [prod EXCEPT ![p] = IdleProducer]
    /\ hist' = [hist EXCEPT !.crashes = @ + 1]
    /\ UNCHANGED <<pending, sent, failed, now, usedHex, drain, enq, enqOrder, tx, call>>

\* ---------------------------------------------------------------- drainer
\* --limit: absent (None), or any int argparse accepts
Limits == {NoLimit} \cup ((0 - 1)..MaxLimit)
Scripts == {"run_spool", "deliver_spool"}

\* the command lines tried: --limit is varied on run_spool; deliver_spool, and
\* dry runs, are run without a limit
PassConfigs ==
    {c \in [script : Scripts, limit : Limits, dry_run : BOOLEAN] :
        (c.script = "deliver_spool" \/ c.dry_run) => c.limit = NoLimit}

\* files[:limit] when limit is not None: Python's slice, a negative limit
\* counts from the end
PySlice(files, limit) ==
    IF limit = NoLimit THEN files
    ELSE IF limit >= 0 THEN SubSeq(files, 1, Min(limit, Len(files)))
    ELSE SubSeq(files, 1, Max(Len(files) + limit, 0))

\* iter_pending(limit): the sorted names of pending/*.json, cut to the limit
IterPending(dir, limit) == PySlice(Sorted(DOMAIN dir), limit)

\* execute_payload_sync(payload): what one delivery attempt can end in.
\* An empty `to` raises ValueError before anything else; otherwise the message
\* is transmitted and a result returned, or the transport session fails.
RecipientError == "At least one recipient is required in 'to'."
TransportError == "SMTP session failed"
Outcomes(payload) ==
    IF payload.to = <<>>
    THEN {[ok |-> FALSE, transmitted |-> FALSE, result |-> [accepted |-> <<>>],
           error |-> RecipientError]}
    ELSE {[ok |-> TRUE, transmitted |-> TRUE, result |-> [accepted |-> payload.to],
           error |-> ""],
          [ok |-> FALSE, transmitted |-> FALSE, result |-> [accepted |-> <<>>],
           error |-> TransportError]}

\* traceback_text: deliver_file passes traceback.format_exc(), process_pending
\* passes nothing
TracebackText(script) == IF script = "deliver_spool" THEN "Traceback" ELSE ""

\* move_to_sent lines 66-68: the loaded entry with sent_at and result added
SentRecord(entry, t, result) ==
    [schema_version |-> entry.schema_version, queued_at |-> entry.queued_at,
     metadata |-> entry.metadata, payload |-> entry.payload,
     sent_at |-> t, result |-> result]

\* move_to_failed lines 77-81: the loaded entry with failed_at and error added,
\* and traceback when one is given
FailedRecord(entry, t, error, traceback_text) ==
    IF traceback_text # ""
    THEN [schema_version |-> entry.schema_version, queued_at |-> entry.queued_at,
          metadata |-> entry.metadata, payload |-> entry.payload,
          failed_at |-> t, error |-> error, traceback |-> traceback_text]
    ELSE [schema_version |-> entry.schema_version, queued_at |-> entry.queued_at,
          metadata |-> entry.metadata, payload |-> entry.payload,
          failed_at |-> t, error |-> error]

\* a move that removes the pending copy before it writes the terminal record
MoveStepsDeleteFirst == <<"load", "unlink", "open", "write">>

\* a move that removes the pending copy and writes nothing
MoveStepsNoWrite == <<"load", "unlink">>

\* a move that leaves the pending copy where it is
MoveStepsKeepPending == <<"load", "open", "write">>

\* the statements of move_to_sent / move_to_failed, in program order:
\* load_entry(path); target.write_text(...) (open, then write); path.unlink()
MoveSteps == <<"load", "open", "write", "unlink">>

\* a name has a complete record in a terminal directory
InSent(n) == n \in DOMAIN sent /\ Complete(sent[n])
InFailed(n) == n \in DOMAIN failed /\ Complete(failed[n])
Terminal(n) == InSent(n) \/ InFailed(n)

Stopped == {"idle", "raised"}

\* main(): one call of process_pending / one run of deliver_spool's loop.
\* iter_pending returns the list before the loop starts.
StartPass(c) ==
    /\ drain.pc \in Stopped
    /\ hist.passes < MaxPasses
    /\ drain' = [IdleDrain EXCEPT !.pc = "loop", !.script = c.script, !.limit = c.limit,
                                  !.dry_run = c.dry_run,
                                  !.listing = Sorted(DOMAIN pending),
                                  !.files = IterPending(pending, c.limit)]
    /\ hist' = [hist EXCEPT !.passes = @ + 1]
    /\ UNCHANGED <<pending, sent, failed, now, usedHex, prod, enq, enqOrder, tx, call>>

\* a loop that takes its next path from the directory as it is now
CurrentPathLive ==
    IF DOMAIN pending = {} THEN drain.files[drain.idx] ELSE Sorted(DOMAIN pending)[1]

\* `path` of `for path in iter_pending(limit=limit)`: the next element of the
\* list iter_pending returned when the pass started
CurrentPath == drain.files[drain.idx]

\* the for loop is exhausted: process_pending returns count
PassEnd ==
    /\ drain.pc = "loop"
    /\ drain.idx > Len(drain.files)
    /\ drain' = [IdleDrain EXCEPT !.returned = TRUE]
    /\ UNCHANGED <<pending, sent, failed, now, usedHex, prod, enq, enqOrder, tx, hist, call>>

\* load_entry(path) at the top of the loop body fails (the file is gone, or its
\* text is not a complete JSON document): nothing catches it, the exception
\* leaves process_pending and main
LoadEntryRaise ==
    /\ drain.pc = "loop"
    /\ drain.idx <= Len(drain.files)
    /\ LET n == CurrentPath IN
       /\ n \notin DOMAIN pending \/ ~Complete(pending[n])
       /\ drain' = [drain EXCEPT !.pc = "raised", !.name = n,
                                 !.read = IF n \in DOMAIN pending THEN pending[n]
                                          ELSE NoContent]
    /\ UNCHANGED <<pending, sent, failed, now, usedHex, prod, enq, enqOrder, tx, hist, call>>

\* load_entry(path) succeeds and this is not a dry run
LoadEntry ==
    /\ drain.pc = "loop"
    /\ drain.idx <= Len(drain.files)
    /\ ~drain.dry_run
    /\ LET n == CurrentPath IN
       /\ n \in DOMAIN pending
       /\ Complete(pending[n])
       /\ drain' = [drain EXCEPT !.pc = "exec", !.name = n, !.read = pending[n]]
    /\ UNCHANGED <<pending, sent, failed, now, usedHex, prod, enq, enqOrder, tx, hist, call>>

\* a loop that does not look at dry_run: the entry goes on to its delivery
DryRunDelivers ==
    /\ drain.pc = "loop"
    /\ drain.idx <= Len(drain.files)
    /\ drain.dry_run
    /\ LET n == CurrentPath IN
       /\ n \in DOMAIN pending
       /\ Complete(pending[n])
       /\ drain' = [drain EXCEPT !.pc = "exec", !.name = n, !.read = pending[n]]
    /\ UNCHANGED <<pending, sent, failed, now, usedHex, prod, enq, enqOrder, tx, hist, call>>

\* dry run: the entry is loaded and reported, count += 1, continue
DryRunSkip ==
    /\ drain.pc = "loop"
    /\ drain.idx <= Len(drain.files)
    /\ drain.dry_run
    /\ LET n == CurrentPath IN
       /\ n \in DOMAIN pending
       /\ Complete(pending[n])
       /\ drain' = [drain EXCEPT !.name = n, !.read = pending[n],
                                 !.count = @ + 1, !.idx = @ + 1]
    /\ UNCHANGED <<pending, sent, failed, now, usedHex, prod, enq, enqOrder, tx, hist, call>>

\* try: result = execute_payload_sync(payload) / except Exception as exc
Execute ==
    /\ drain.pc = "exec"
    /\ \E o \in Outcomes(JsonLoads(drain.read).payload) :
         /\ drain' = [drain EXCEPT !.pc = "move", !.outcome = o, !.step = 1]
         /\ tx' = [tx EXCEPT ![drain.name] = @ + (IF o.transmitted THEN 1 ELSE 0)]
         /\ hist' = [hist EXCEPT !.resent =
                        IF o.transmitted /\ Terminal(drain.name)
                        THEN @ \cup {drain.name} ELSE @,
                                 !.attempts[drain.name] = @ + 1]
    /\ UNCHANGED <<pending, sent, failed, now, usedHex, prod, enq, enqOrder, call>>
\* ------------------------------------------- move_to_sent / move_to_failed
AtStep(what) ==
    /\ drain.pc = "move"
    /\ MoveSteps[drain.step] = what

\* the drainer after one statement of the move: at the next statement, or,
\* after the last one, back in the loop with count += 1 and the next path
StepDone(d) ==
    IF d.step = Len(MoveSteps)
    THEN [d EXCEPT !.pc = "loop", !.count = @ + 1, !.idx = @ + 1, !.step = 0]
    ELSE [d EXCEPT !.step = @ + 1]

\* entry = load_entry(path); the timestamp and the outcome are added.
\* A missing or truncated pending file raises out of the move.
MoveLoad ==
    /\ AtStep("load")
    /\ LET n == drain.name IN
       IF n \in DOMAIN pending /\ Complete(pending[n])
       THEN drain' = StepDone([drain EXCEPT
                        !.record = IF drain.outcome.ok
                                   THEN SentRecord(JsonLoads(pending[n]), now,
                                                   drain.outcome.result)
                                   ELSE FailedRecord(JsonLoads(pending[n]), now,
                                                     drain.outcome.error,
                                                     TracebackText(drain.script))])
       ELSE drain' = [IdleDrain EXCEPT !.pc = "raised", !.name = n]
    /\ UNCHANGED <<pending, sent, failed, now, usedHex, prod, enq, enqOrder, tx, hist, call>>

\* target.write_text opens SENT_DIR / path.name or FAILED_DIR / path.name:
\* the file is created empty, a file already there is truncated
MoveOpen ==
    /\ AtStep("open")
    /\ LET n == drain.name
           c == JsonDumps(drain.record)
       IN /\ IF drain.outcome.ok
             THEN sent' = Put(sent, n, c) /\ UNCHANGED failed
             ELSE failed' = Put(failed, n, c) /\ UNCHANGED sent
          /\ hist' = [hist EXCEPT !.clobbered =
                         IF (drain.outcome.ok /\ InSent(n)) \/ (~drain.outcome.ok /\ InFailed(n))
                         THEN @ \cup {n} ELSE @]
    /\ drain' = StepDone(drain)
    /\ UNCHANGED <<pending, now, usedHex, prod, enq, enqOrder, tx, call>>

\* write_text writes the next chunk of the terminal record, and closes the file
\* after the last one
MoveWrite ==
    /\ AtStep("write")
    /\ LET n == drain.name IN
       IF drain.outcome.ok
       THEN /\ sent' = [sent EXCEPT ![n].len = @ + 1]
            /\ drain' = IF sent[n].len + 1 = sent[n].size THEN StepDone(drain) ELSE drain
            /\ UNCHANGED failed
       ELSE /\ failed' = [failed EXCEPT ![n].len = @ + 1]
            /\ drain' = IF failed[n].len + 1 = failed[n].size THEN StepDone(drain) ELSE drain
            /\ UNCHANGED sent
    /\ UNCHANGED <<pending, now, usedHex, prod, enq, enqOrder, tx, hist, call>>

\* path.unlink(): FileNotFoundError when the pending file is not there
MoveUnlink ==
    /\ AtStep("unlink")
    /\ LET n == drain.name IN
       IF n \in DOMAIN pending
       THEN pending' = Remove(pending, n) /\ drain' = StepDone(drain)
       ELSE UNCHANGED pending /\ drain' = [IdleDrain EXCEPT !.pc = "raised", !.name = n]
    /\ UNCHANGED <<sent, failed, now, usedHex, prod, enq, enqOrder, tx, hist, call>>

\* the drainer process is interrupted at any point of a pass
DrainCrash ==
    /\ drain.pc \in {"loop", "exec", "move"}
    /\ hist.crashes < MaxCrashes
    /\ drain' = IdleDrain
    /\ hist' = [hist EXCEPT !.crashes = @ + 1]
    /\ UNCHANGED <<pending, sent, failed, now, usedHex, prod, enq, enqOrder, tx, call>>

\* ------------------------------------------------------------- utilities
Quiescent == drain.pc \in Stopped /\ \A p \in Producers : prod[p].pc # "writing"

\* discard(path): if path.exists(): path.unlink(), for a path in any of the
\* three directories
Discard(dir, n) ==
    /\ Quiescent
    /\ \/ dir = "pending" /\ n \in DOMAIN pending /\ pending' = Remove(pending, n)
          /\ UNCHANGED <<sent, failed>>
       \/ dir = "sent" /\ n \in DOMAIN sent /\ sent' = Remove(sent, n)
          /\ UNCHANGED <<pending, failed>>
       \/ dir = "failed" /\ n \in DOMAIN failed /\ failed' = Remove(failed, n)
          /\ UNCHANGED <<pending, sent>>
    /\ hist' = [hist EXCEPT !.removed = @ \cup {n}]
    /\ UNCHANGED <<now, usedHex, prod, drain, enq, enqOrder, tx, call>>

\* reset_spool(): shutil.rmtree(SPOOL_ROOT)
ResetSpool ==
    /\ Quiescent
    /\ DOMAIN pending \cup DOMAIN sent \cup DOMAIN failed # {}
    /\ pending' = EmptyDir
    /\ sent' = EmptyDir
    /\ failed' = EmptyDir
    /\ hist' = [hist EXCEPT !.removed = @ \cup DOMAIN pending \cup DOMAIN sent \cup DOMAIN failed]
    /\ UNCHANGED <<now, usedHex, prod, drain, enq, enqOrder, tx, call>>

\* ---------------------------------------------------------- specifications
Next ==
    \/ Tick
    \/ \E p \in Producers, req \in Requests : EnqueueTypeError(p, req)
    \/ \E p \in Producers, req \in Requests : EnqueueOpen(p, req)
    \/ \E p \in Producers : EnqueueWrite(p)
    \/ \E p \in Producers : QueueCount(p)
    \/ \E p \in Producers : ProducerCrash(p)
    \/ \E c \in PassConfigs : StartPass(c)
    \/ PassEnd
    \/ LoadEntryRaise
    \/ LoadEntry
    \/ DryRunSkip
    \/ Execute
    \/ MoveLoad
    \/ MoveOpen
    \/ MoveWrite
    \/ MoveUnlink
    \/ DrainCrash

Spec == Init /\ [][Next]_vars

\* the spool with its deletion utilities in use as well
NextUtil ==
    \/ Next
    \/ \E dir \in {"pending", "sent", "failed"}, n \in Names : Discard(dir, n)
    \/ ResetSpool

SpecUtil == Init /\ [][NextUtil]_vars

\* ---------------------------------------------------- run_spool.py, main()
\* The drain loop of run_spool.py without --once and without --dry-run, with
\* producers that enqueue while it runs. No process is interrupted. An
\* exception that leaves process_pending leaves main as well and ends the
\* script.
\* --limit absent, or at least 1
LoopLimits == {NoLimit} \cup 1..MaxLimit

\* lines 50-51: process_pending(limit=args.limit, dry_run=args.dry_run), when
\* the script starts and after every sleep, with the same arguments
LoopPass ==
    /\ drain.pc = "idle"
    /\ \E limit \in LoopLimits :
          /\ drain.returned => limit = drain.limit
          /\ drain' = [IdleDrain EXCEPT !.pc = "loop", !.limit = limit,
                                        !.listing = Sorted(DOMAIN pending),
                                        !.files = IterPending(pending, limit)]
    /\ UNCHANGED <<pending, sent, failed, now, usedHex, prod, enq, enqOrder, tx, hist, call>>

\* lines 39 and 52-56: process_pending returns count, main sleeps
LoopSleep ==
    /\ drain.pc = "loop"
    /\ drain.idx > Len(drain.files)
    /\ drain' = [IdleDrain EXCEPT !.returned = TRUE, !.limit = drain.limit]
    /\ UNCHANGED <<pending, sent, failed, now, usedHex, prod, enq, enqOrder, tx, hist, call>>

\* the steps of the script
DrainStep ==
    \/ LoopPass
    \/ LoopSleep
    \/ LoadEntryRaise
    \/ LoadEntry
    \/ Execute
    \/ MoveLoad
    \/ MoveOpen
    \/ MoveWrite
    \/ MoveUnlink

LoopNext ==
    \/ Tick
    \/ \E p \in Producers, req \in Requests : EnqueueTypeError(p, req)
    \/ \E p \in Producers, req \in Requests : EnqueueOpen(p, req)
    \/ \E p \in Producers : EnqueueWrite(p)
    \/ \E p \in Producers : QueueCount(p)
    \/ LoopPass
    \/ LoopSleep
    \/ LoadEntryRaise
    \/ LoadEntry
    \/ Execute
    \/ MoveLoad
    \/ MoveOpen
    \/ MoveWrite
    \/ MoveUnlink

\* the script keeps running while it has a next statement, and a write_text
\* that has begun comes to its end
LoopFairness ==
    /\ WF_vars(DrainStep)
    /\ WF_vars(\E p \in Producers : EnqueueWrite(p))
    /\ WF_vars(\E p \in Producers : QueueCount(p))

SpecLoop == Init /\ [][LoopNext]_vars /\ LoopFairness

TypeOK ==
    /\ DOMAIN pending \subseteq Names
    /\ DOMAIN sent \subseteq Names
    /\ DOMAIN failed \subseteq Names
    /\ now \in Times
    /\ usedHex \subseteq Hexes
    /\ \A p \in Producers : prod[p].pc \in {"idle", "raised", "writing", "count"}
    /\ drain.pc \in {"idle", "loop", "exec", "move", "raised"}

\* ============================================== the send operation (server.py)
\* A string is the sequence of its characters. The calls below are looked at
\* one at a time, the spool at rest.
SpoolVars == <<pending, sent, failed, now, usedHex, prod, drain, enq, enqOrder, tx, hist>>

MaxTextLen == 4     \* longest template text tried

\* ------------------------------------------------- _safe_template (Template)
\* string.Template: delimiter "$", identifiers [_a-z][_a-z0-9]* (ASCII, case
\* ignored)
IsIdStart(c) == c \in {"a", "b", "_"}
IsIdChar(c) == IsIdStart(c) \/ c \in {"0", "1"}

RECURSIVE IdRun(_)
\* the longest run of identifier characters at the head of s
IdRun(s) ==
    IF s = <<>> \/ ~IsIdChar(Head(s)) THEN <<>> ELSE <<Head(s)>> \o IdRun(Tail(s))

\* s without its first k characters
Drop(s, k) == SubSeq(s, k + 1, Len(s))

\* after "${": an identifier closed by "}"
BracedAt(r) ==
    /\ Len(r) >= 3
    /\ Head(r) = "{"
    /\ IsIdStart(r[2])
    /\ Len(IdRun(Tail(r))) + 2 <= Len(r)
    /\ r[Len(IdRun(Tail(r))) + 2] = "}"

\* the variables dict: names to values, both strings
EmptyVars == [n \in {} |-> <<>>]

RECURSIVE SafeSubstitute(_, _)
\* Template(text).safe_substitute(variables): left to right, at each "$" the
\* pattern tries "$$" (gives "$"), "$identifier", "${identifier}" (give the
\* value, or the matched text when the name is not in variables), and
\* otherwise leaves the "$"
SafeSubstitute(s, variables) ==
    IF s = <<>> THEN <<>>
    ELSE IF Head(s) # "$" THEN <<Head(s)>> \o SafeSubstitute(Tail(s), variables)
    ELSE LET r == Tail(s) IN
         IF r # <<>> /\ Head(r) = "$"
         THEN <<"$">> \o SafeSubstitute(Tail(r), variables)
         ELSE IF r # <<>> /\ IsIdStart(Head(r))
         THEN LET id == IdRun(r) IN
              (IF id \in DOMAIN variables THEN variables[id] ELSE <<"$">> \o id)
              \o SafeSubstitute(Drop(r, Len(id)), variables)
         ELSE IF BracedAt(r)
         THEN LET id == IdRun(Tail(r)) IN
              (IF id \in DOMAIN variables THEN variables[id]
               ELSE <<"$", "{">> \o id \o <<"}">>)
              \o SafeSubstitute(Drop(r, Len(id) + 2), variables)
         ELSE <<"$">> \o SafeSubstitute(r, variables)

\* _safe_template(text, variables)
SafeTemplate(text, variables) ==
    IF DOMAIN variables = {} THEN text ELSE SafeSubstitute(text, variables)

\* the texts and dicts tried
RenderChars == {"$", "{", "}", "a", " "}
RenderTexts == UNION {[1..k -> RenderChars] : k \in 0..MaxTextLen}
RenderVars ==
    {EmptyVars, [n \in {<<"a">>} |-> <<"X">>], [n \in {<<"a">>} |-> <<>>],
     [n \in {<<"b">>} |-> <<"Y">>]}

RenderInit ==
    /\ SpoolInit
    /\ \E t \in RenderTexts, v \in RenderVars :
          call = [op |-> "render", pc |-> "start", text |-> t, variables |-> v,
                  out |-> <<>>]

\* _safe_template is called and returns
RenderCall ==
    /\ call.op = "render"
    /\ call.pc = "start"
    /\ call' = [call EXCEPT !.pc = "done",
                            !.out = SafeTemplate(call.text, call.variables)]
    /\ UNCHANGED SpoolVars

RenderNext == RenderCall

SpecRender == RenderInit /\ [][RenderNext]_vars

\* ------------------------------------------------- _build_calendar_invite
TicksPerSecond == 2 \* datetime values per second (the code has microseconds)
MaxWall == 5        \* largest wall-clock value tried, in ticks
GapEnd == 4         \* the named zone's clocks go forward: first wall value after
Jump == 2           \* ... and by how many ticks
MaxAttendees == 2   \* longest attendee list tried

\* a datetime: its wall-clock fields (as ticks), and its tzinfo: none (naive),
\* timezone.utc, or the named zone ZoneInfo(tz_name)
DateTimes == [wall : 0..MaxWall, tz : {"naive", "utc"}]

\* dt.utcoffset(): the named zone is on offset 0 up to its transition and on
\* offset Jump from it; a wall value inside the gap takes the offset before
UtcOffset(dt) == IF dt.tz = "zone" /\ dt.wall >= GapEnd THEN Jump ELSE 0

\* the instant a datetime denotes
Utc(dt) == dt.wall - UtcOffset(dt)

\* _apply_timezone(dt, tz_name)
ApplyTimezone(dt, tz_name) ==
    IF dt.tz = "naive"
    THEN [dt EXCEPT !.tz = IF tz_name # "" THEN "zone" ELSE "utc"]
    ELSE dt

\* a <= b on aware datetimes: with the same tzinfo the wall-clock fields are
\* compared and the offsets ignored, otherwise the instants
DtLessEq(a, b) == IF a.tz = b.tz THEN a.wall <= b.wall ELSE Utc(a) <= Utc(b)

\* _format_ics_datetime(dt): the UTC instant as YYYYMMDDTHHMMSSZ, which has
\* whole seconds only; the string is held as the second it names
FormatIcsDatetime(dt) == [ics |-> Utc(dt) \div TicksPerSecond]

\* the instant an YYYYMMDDTHHMMSSZ string denotes, in ticks
ParseIcsDatetime(str) == str.ics * TicksPerSecond

\* str.lower() and str.strip() on the characters used
LowerChar(c) == IF c = "A" THEN "a" ELSE IF c = "B" THEN "b" ELSE c
Lower(str) == [i \in DOMAIN str |-> LowerChar(str[i])]

IsSpace(c) == c \in {" ", "\n"}

RECURSIVE LStrip(_)
LStrip(str) == IF str # <<>> /\ IsSpace(Head(str)) THEN LStrip(Tail(str)) ELSE str

RECURSIVE RStrip(_)
RStrip(str) ==
    IF str # <<>> /\ IsSpace(str[Len(str)]) THEN RStrip(SubSeq(str, 1, Len(str) - 1))
    ELSE str

Strip(str) == LStrip(RStrip(str))

RECURSIVE DictFromKeys(_)
\* list(dict.fromkeys(items)): the distinct items in first-occurrence order
DictFromKeys(items) ==
    IF items = <<>> THEN <<>>
    ELSE LET front == DictFromKeys(SubSeq(items, 1, Len(items) - 1))
             last == items[Len(items)]
         IN IF \E i \in 1..Len(front) : front[i] = last THEN front
            ELSE Append(front, last)

\* CalendarAttendee(email=..., name=None)
Attendee(email) == [email |-> email, name |-> <<>>]

\* a key that keeps the case of the address
SeenKeyExact(email) == email

\* the key an address is remembered by in seen_attendees: email.lower()
SeenKey(email) == Lower(email)

RECURSIVE AttendeeLines(_, _)
\* the loop of lines 500-508 over the attendees left, with seen_attendees
AttendeeLines(attendees, seen) ==
    IF attendees = <<>> THEN <<>>
    ELSE LET email == Strip(Head(attendees).email) IN
         IF email = <<>> \/ SeenKey(email) \in seen
         THEN AttendeeLines(Tail(attendees), seen)
         ELSE <<[key |-> "ATTENDEE", cn |-> Head(attendees).name, mailto |-> email]>>
              \o AttendeeLines(Tail(attendees), seen \cup {SeenKey(email)})

CalendarError == "Calendar event 'end' must be after 'start'."

\* _build_calendar_invite(event, sender, recipients): the error raised, or the
\* lines of the invite (summary, uid and organizer are fixed; no location, no
\* description, the default reminder)
BuildCalendarInvite(event, recipients) ==
    LET start == ApplyTimezone(event.start, event.timezone)
        end == ApplyTimezone(event.end, event.timezone)
        attendees == IF event.attendees # <<>> THEN event.attendees
                     ELSE [i \in DOMAIN recipients |-> Attendee(Strip(recipients[i]))]
    IN IF DtLessEq(end, start)
       THEN [raised |-> CalendarError, lines |-> <<>>]
       ELSE [raised |-> "",
             lines |-> <<[key |-> "BEGIN", value |-> "VCALENDAR"],
                         [key |-> "VERSION", value |-> "2.0"],
                         [key |-> "PRODID", value |-> "-//gmail-smtp-mcp//EN"],
                         [key |-> "METHOD", value |-> "REQUEST"],
                         [key |-> "BEGIN", value |-> "VEVENT"],
                         [key |-> "UID", value |-> "uid"],
                         [key |-> "SUMMARY", value |-> "Sync"],
                         [key |-> "DTSTAMP", value |-> "now"],
                         [key |-> "DTSTART", value |-> FormatIcsDatetime(start)],
                         [key |-> "DTEND", value |-> FormatIcsDatetime(end)],
                         [key |-> "ORGANIZER", value |-> "sender"]>>
                      \o AttendeeLines(attendees, {})
                      \o <<[key |-> "BEGIN", value |-> "VALARM"],
                           [key |-> "TRIGGER", value |-> "-PT15M"],
                           [key |-> "ACTION", value |-> "DISPLAY"],
                           [key |-> "DESCRIPTION", value |-> "Reminder"],
                           [key |-> "END", value |-> "VALARM"],
                           [key |-> "END", value |-> "VEVENT"],
                           [key |-> "END", value |-> "VCALENDAR"]>>]

\* the addresses and lists tried
Emails == {<<"a">>, <<"A">>, <<" ", "a">>, <<"b">>, <<" ">>, <<>>}
AttendeeLists ==
    UNION {[1..k -> {Attendee(e) : e \in Emails}] : k \in 0..MaxAttendees}
Timezones == {"", "Europe/London"}
AddressLists ==
    {<<>>, <<<<"a">>>>, <<<<"a">>, <<"A">>>>, <<<<"b">>, <<"b">>>>, <<<<" ", "a">>, <<"a">>>>}
BccLists == {<<>>, <<<<"a">>>>, <<<<"c">>>>}

\* the time arguments are varied with the attendees left out, the attendees
\* and recipients with the times fixed
InviteInputs ==
    {[start |-> st, end |-> en, timezone |-> tz, attendees |-> <<>>,
      to |-> <<<<"a">>>>, cc |-> <<>>, bcc |-> <<>>] :
        st \in DateTimes, en \in DateTimes, tz \in Timezones}
    \cup
    {[start |-> [wall |-> 0, tz |-> "utc"], end |-> [wall |-> MaxWall, tz |-> "utc"],
      timezone |-> "", attendees |-> at, to |-> to, cc |-> cc, bcc |-> bcc] :
        at \in AttendeeLists, to \in AddressLists, cc \in AddressLists,
        bcc \in BccLists}

InviteInit ==
    /\ SpoolInit
    /\ \E in \in InviteInputs :
          call = [op |-> "invite", pc |-> "start", event |-> in,
                  raised |-> "", lines |-> <<>>]

\* _build_message lines 694-699: the invite is built for the event with
\* recipients=list(dict.fromkeys(to + cc))
InviteCall ==
    /\ call.op = "invite"
    /\ call.pc = "start"
    /\ LET r == BuildCalendarInvite(call.event,
                                   DictFromKeys(call.event.to \o call.event.cc))
       IN call' = [call EXCEPT !.pc = "done", !.raised = r.raised, !.lines = r.lines]
    /\ UNCHANGED SpoolVars

InviteNext == InviteCall

SpecInvite == InviteInit /\ [][InviteNext]_vars

\* ------------------------- gmail_send_email_with_attachments, _build_message
\* Optional[str]: None, or a string
NoneStr == [none |-> TRUE, str |-> <<>>]
Some(str) == [none |-> FALSE, str |-> str]
\* `if x:` on an Optional[str]
Truthy(x) == ~x.none /\ x.str # <<>>

\* a file of the installation: missing, or there with its text
NoFile == [exists |-> FALSE, text |-> <<>>]
File(text) == [exists |-> TRUE, text |-> text]

MissingBodyError == "Provide a plain-text body or a template that renders plain text."
TemplateNotFound == "No template found"
SignatureNotFound == "No signature found"
AttachmentNotFound == "Attachment not found"
InlineNotFound == "Inline image not found"
InlineNeedsHtml == "Inline images require an HTML body or HTML template."
CredentialsError == "Set GMAIL_SMTP_USERNAME in the environment or env file."
ResultValidationError == "validation error for EmailSendResult: refused"

\* _render_template_pair: each file that exists is read and rendered; no file
\* at all is FileNotFoundError
RenderTemplatePair(files, variables) ==
    [raised |-> IF files.text.exists \/ files.html.exists THEN "" ELSE TemplateNotFound,
     text |-> IF files.text.exists THEN Some(SafeTemplate(files.text.text, variables))
              ELSE NoneStr,
     html |-> IF files.html.exists THEN Some(SafeTemplate(files.html.text, variables))
              ELSE NoneStr]

\* an override that takes whatever was rendered, empty or not
OverrideIfRendered(rendered, literal) == IF ~rendered.none THEN rendered ELSE literal

\* `if templated_text: plain_body = templated_text`
OverrideIfTruthy(rendered, literal) == IF Truthy(rendered) THEN rendered ELSE literal

\* _build_message lines 647-664: the bodies the message gets, or the error
ResolveBodies(args, files) ==
    IF args.body_template # <<>>
    THEN LET pair == RenderTemplatePair(files, args.template_variables) IN
         IF pair.raised # ""
         THEN [raised |-> pair.raised, plain_body |-> <<>>, html_content |-> NoneStr]
         ELSE LET plain == OverrideIfTruthy(pair.text, Some(args.body)).str
                  html == OverrideIfTruthy(pair.html, args.html_body)
              IN [raised |-> IF plain = <<>> THEN MissingBodyError ELSE "",
                  plain_body |-> plain, html_content |-> html]
    ELSE LET plain == SafeTemplate(args.body, args.template_variables)
             html == IF Truthy(args.html_body)
                     THEN Some(SafeTemplate(args.html_body.str, args.template_variables))
                     ELSE args.html_body
         IN [raised |-> IF plain = <<>> THEN MissingBodyError ELSE "",
             plain_body |-> plain, html_content |-> html]

\* signature_variables taken from the variables of the message in every case
SignatureVariablesOfMessage(args) == args.template_variables

\* line 636: signature_variables = signature_variables or template_variables
SignatureVariables(args) ==
    IF DOMAIN args.signature_variables # {} THEN args.signature_variables
    ELSE args.template_variables

\* _render_signature_pair: each file that exists is read and rendered; no file
\* at all is FileNotFoundError
RenderSignaturePair(files, variables) ==
    [raised |-> IF files.text.exists \/ files.html.exists THEN "" ELSE SignatureNotFound,
     text |-> IF files.text.exists THEN Some(SafeTemplate(files.text.text, variables))
              ELSE NoneStr,
     html |-> IF files.html.exists THEN Some(SafeTemplate(files.html.text, variables))
              ELSE NoneStr]

\* lines 677-678: `if html_content: message.add_alternative(html_content, ...)`
HtmlPart(html_content) == IF Truthy(html_content) THEN html_content ELSE NoneStr

HtmlBreak == <<"<", "b", "r", ">", "<", "b", "r", ">">>

\* a merge that leaves the HTML signature out
MergeSignatureTextOnly(plain_body, html_part, pair) ==
    [plain_body |->
        IF Truthy(pair.text)
        THEN RStrip(plain_body)
             \o (IF Strip(plain_body) # <<>> THEN <<"\n", "\n">> ELSE <<>>)
             \o pair.text.str
        ELSE plain_body,
     html_part |-> html_part]

\* lines 671-688: a text signature goes after the body, its trailing
\* whitespace dropped, with an empty line between them when the body is not
\* blank; an HTML signature goes after the HTML part, or is the HTML part when
\* the message has none
MergeSignature(plain_body, html_part, pair) ==
    [plain_body |->
        IF Truthy(pair.text)
        THEN RStrip(plain_body)
             \o (IF Strip(plain_body) # <<>> THEN <<"\n", "\n">> ELSE <<>>)
             \o pair.text.str
        ELSE plain_body,
     html_part |->
        IF Truthy(pair.html)
        THEN IF html_part.none THEN pair.html
             ELSE Some(RStrip(html_part.str) \o HtmlBreak \o pair.html.str)
        ELSE html_part]

\* the events of the outside world a call causes, in order
IoStat(what) == [op |-> "stat", what |-> what]
IoRead(what) == [op |-> "read", what |-> what]
OpenSession == [op |-> "connect", what |-> "smtp"]

\* path.exists(), and path.read_text() / read_bytes() when the file is there
Access(file, what) == IF file.exists THEN <<IoStat(what), IoRead(what)>> ELSE <<IoStat(what)>>

\* the arguments tried. Recipients, bodies, the optional parts and the
\* signature are varied in turn, the rest kept at a plain message to one
\* recipient. A signature is tried with a blank body, with bodies that end in
\* whitespace, and with variables of the message and of the signature that
\* give one name different values.
AddrR == <<"a">>
AddrS == <<"b">>
ToLists == {<<>>, <<AddrR>>, <<AddrR, AddrS>>, <<AddrR, AddrR>>}
CcLists == {<<>>, <<AddrS>>, <<AddrR>>}
SendBccLists == {<<>>, <<AddrS>>}
Bodies == {<<>>, <<"B">>, <<"$", "{", "a", "}">>}
HtmlBodies == {NoneStr, Some(<<"H">>)}
BodyVars == {EmptyVars, [n \in {<<"a">>} |-> <<>>], [n \in {<<"a">>} |-> <<"X">>]}
NoEvent == [given |-> FALSE]
Event(st, en) ==
    [given |-> TRUE, start |-> [wall |-> st, tz |-> "utc"], end |-> [wall |-> en, tz |-> "utc"],
     timezone |-> "", attendees |-> <<>>]
Events == {NoEvent, Event(0, MaxWall), Event(MaxWall, 0)}

PlainArgs ==
    [to |-> <<AddrR>>, cc |-> <<>>, bcc |-> <<>>, body |-> <<"B">>, html_body |-> NoneStr,
     body_template |-> <<>>, template_variables |-> EmptyVars,
     calendar_event |-> NoEvent, signature_template |-> <<>>,
     signature_variables |-> EmptyVars,
     attachments |-> <<>>, inline_images |-> <<>>]

SendArgs ==
    {[PlainArgs EXCEPT !.to = to, !.cc = cc, !.bcc = bcc] :
        to \in ToLists, cc \in CcLists, bcc \in SendBccLists}
    \cup
    {[PlainArgs EXCEPT !.body = b, !.html_body = h, !.body_template = t,
                       !.template_variables = v] :
        b \in Bodies, h \in HtmlBodies, t \in {<<>>, <<"t">>}, v \in BodyVars}
    \cup
    {[PlainArgs EXCEPT !.to = to, !.html_body = h, !.calendar_event = ev,
                       !.signature_template = sg, !.attachments = at,
                       !.inline_images = im, !.body_template = t] :
        to \in {<<>>, <<AddrR>>}, h \in HtmlBodies, ev \in Events,
        sg \in {<<>>, <<"s">>}, at \in {<<>>, <<"f">>}, im \in {<<>>, <<"i">>},
        t \in {<<>>, <<"t">>}}
    \cup
    {[PlainArgs EXCEPT !.body = b, !.html_body = h, !.signature_template = <<"s">>,
                       !.template_variables = v, !.signature_variables = sv,
                       !.inline_images = im] :
        b \in {<<"B">>, <<" ">>, <<"B", " ">>},
        h \in {NoneStr, Some(<<"H">>), Some(<<"H", " ">>)},
        v \in {EmptyVars, [n \in {<<"a">>} |-> <<"X">>]},
        sv \in {EmptyVars, [n \in {<<"a">>} |-> <<"Z">>], [n \in {<<"b">>} |-> <<"Z">>]},
        im \in {<<>>, <<"i">>}}

TemplateTexts == {NoFile, File(<<>>), File(<<"T">>), File(<<"$", "{", "a", "}">>)}
TemplateHtmls == {NoFile, File(<<>>), File(<<"H">>)}
SignatureTexts == {NoFile, File(<<>>), File(<<"S">>), File(<<"$", "{", "a", "}">>)}
SignatureHtmls == {NoFile, File(<<>>), File(<<"G">>), File(<<"$", "{", "a", "}">>)}
NoFiles == [text |-> NoFile, html |-> NoFile]

\* the call of the tool starts at the recipient check, the call of the
\* composer alone at its first statement
SendInit ==
    /\ SpoolInit
    /\ \E op \in {"send", "build"}, a \in SendArgs :
          call = [op |-> op, pc |-> IF op = "send" THEN "check_to" ELSE "body",
                  args |-> a, io |-> <<>>, raised |-> "", files |-> NoFiles,
                  signature_files |-> NoFiles,
                  plain_body |-> <<>>, html_content |-> NoneStr, html_part |-> NoneStr,
                  recipients |-> <<>>, reply |-> [kind |-> "none"],
                  accepted |-> <<>>, refused |-> [x \in {} |-> 0]]

InCall == call.op \in {"send", "build"}

Raise(error) == [call EXCEPT !.pc = "raised", !.raised = error]

\* if not to: raise ValueError(...)
SendCheckTo ==
    /\ call.op = "send"
    /\ call.pc = "check_to"
    /\ call' = IF call.args.to = <<>> THEN Raise(RecipientError)
               ELSE [call EXCEPT !.pc = "credentials"]
    /\ UNCHANGED SpoolVars

\* _collect_credentials(): the env file is looked for and read when it is
\* there; without a username in the environment after that, ValueError
CollectCredentials ==
    /\ call.op = "send"
    /\ call.pc = "credentials"
    /\ \E envFile \in {NoFile, File(<<>>)}, username \in BOOLEAN :
          LET io == call.io \o Access(envFile, "env") IN
          call' = IF username THEN [call EXCEPT !.pc = "body", !.io = io]
                  ELSE [Raise(CredentialsError) EXCEPT !.io = io]
    /\ UNCHANGED SpoolVars

\* _build_message lines 647-664: template or literal bodies, then the check for
\* a plain-text body
ResolveBody ==
    /\ InCall
    /\ call.pc = "body"
    /\ \E text \in TemplateTexts, html \in TemplateHtmls :
          LET files == IF call.args.body_template # <<>>
                       THEN [text |-> text, html |-> html] ELSE NoFiles
              r == ResolveBodies(call.args, files)
              io == call.io \o (IF call.args.body_template # <<>>
                                THEN Access(files.text, "template text")
                                     \o Access(files.html, "template html")
                                ELSE <<>>)
          IN call' = [call EXCEPT !.pc = IF r.raised # "" THEN "raised" ELSE "signature",
                                  !.raised = r.raised, !.files = files, !.io = io,
                                  !.plain_body = r.plain_body,
                                  !.html_content = r.html_content]
    /\ UNCHANGED SpoolVars

\* lines 666-688: the signature pair is rendered and merged into the bodies;
\* the message gets the plain body and the HTML part
ApplySignature ==
    /\ InCall
    /\ call.pc = "signature"
    /\ IF call.args.signature_template = <<>>
       THEN call' = [call EXCEPT !.pc = "attach", !.html_part = HtmlPart(call.html_content)]
       ELSE \E text \in SignatureTexts, html \in SignatureHtmls :
               LET files == [text |-> text, html |-> html]
                   io == call.io \o Access(text, "signature text")
                                 \o Access(html, "signature html")
                   pair == RenderSignaturePair(files, SignatureVariables(call.args))
                   merged == MergeSignature(call.plain_body, HtmlPart(call.html_content), pair)
               IN call' = IF pair.raised # ""
                          THEN [Raise(pair.raised) EXCEPT !.io = io, !.signature_files = files]
                          ELSE [call EXCEPT !.pc = "attach", !.io = io,
                                            !.signature_files = files,
                                            !.plain_body = merged.plain_body,
                                            !.html_part = merged.html_part]
    /\ UNCHANGED SpoolVars

\* _attach_files: each path is looked for and read
AttachFiles ==
    /\ InCall
    /\ call.pc = "attach"
    /\ IF call.args.attachments = <<>>
       THEN call' = [call EXCEPT !.pc = "inline"]
       ELSE \E file \in {NoFile, File(<<>>)} :
               LET io == call.io \o Access(file, "attachment") IN
               call' = IF ~file.exists THEN [Raise(AttachmentNotFound) EXCEPT !.io = io]
                       ELSE [call EXCEPT !.pc = "inline", !.io = io]
    /\ UNCHANGED SpoolVars

\* _attach_inline_images: without an HTML part ValueError, otherwise each
\* image is looked for and read
AttachInlineImages ==
    /\ InCall
    /\ call.pc = "inline"
    /\ IF call.args.inline_images = <<>>
       THEN call' = [call EXCEPT !.pc = "calendar"]
       ELSE IF call.html_part.none
       THEN call' = Raise(InlineNeedsHtml)
       ELSE \E file \in {NoFile, File(<<>>)} :
               LET io == call.io \o Access(file, "inline image") IN
               call' = IF ~file.exists THEN [Raise(InlineNotFound) EXCEPT !.io = io]
                       ELSE [call EXCEPT !.pc = "calendar", !.io = io]
    /\ UNCHANGED SpoolVars

\* lines 693-707: the invite is built and attached; _build_message returns
AddCalendarInvite ==
    /\ InCall
    /\ call.pc = "calendar"
    /\ LET next == IF call.op = "build" THEN "built" ELSE "transmit"
           r == BuildCalendarInvite(call.args.calendar_event,
                                    DictFromKeys(call.args.to \o call.args.cc))
       IN call' = IF ~call.args.calendar_event.given THEN [call EXCEPT !.pc = next]
                  ELSE IF r.raised # "" THEN Raise(r.raised)
                  ELSE [call EXCEPT !.pc = next]
    /\ UNCHANGED SpoolVars

\* what the server answers for a refused recipient: smtplib hands it on as the
\* tuple (code, message)
Refusal == [type |-> "tuple", code |-> 550, text |-> "No such user"]

\* the answers of _send_email_sync for a recipient list: the session fails
\* (connection, login, or every recipient refused), or send_message returns
\* the dict of the refused recipients, which never holds all of them
Replies(recipients) ==
    {[kind |-> "error"]}
    \cup {[kind |-> "refused", refused |-> [a \in R |-> Refusal]] :
            R \in (SUBSET Range(recipients)) \ {Range(recipients)}}

\* lines 958-969: the recipient list, and the SMTP session
Transmit ==
    /\ call.op = "send"
    /\ call.pc = "transmit"
    /\ LET recipients == DictFromKeys(call.args.to \o call.args.cc \o call.args.bcc) IN
       \E reply \in Replies(recipients) :
          call' = IF reply.kind = "error"
                  THEN [Raise(TransportError) EXCEPT !.io = Append(call.io, OpenSession),
                                                     !.recipients = recipients,
                                                     !.reply = reply]
                  ELSE [call EXCEPT !.pc = "result", !.io = Append(call.io, OpenSession),
                                    !.recipients = recipients, !.reply = reply]
    /\ UNCHANGED SpoolVars

\* a value pydantic takes for a field of type str
ValidStr(v) == v.type = "str"

\* lines 971-983: refused, accepted, and EmailSendResult(...), whose field
\* refused: Dict[str, str] is validated
BuildResult ==
    /\ call.op = "send"
    /\ call.pc = "result"
    /\ LET refused == call.reply.refused
           accepted == SelectSeq(call.recipients, LAMBDA a : a \notin DOMAIN refused)
       IN call' = IF \A a \in DOMAIN refused : ValidStr(refused[a])
                  THEN [call EXCEPT !.pc = "returned", !.accepted = accepted,
                                    !.refused = refused]
                  ELSE Raise(ResultValidationError)
    /\ UNCHANGED SpoolVars

SendNext ==
    \/ SendCheckTo
    \/ CollectCredentials
    \/ ResolveBody
    \/ ApplySignature
    \/ AttachFiles
    \/ AttachInlineImages
    \/ AddCalendarInvite
    \/ Transmit
    \/ BuildResult

SpecSend == SendInit /\ [][SendNext]_vars

\* ------------------------------------------------------------ _send_email_sync
\* The SMTP session of one send, command by command. Each command of the log
\* carries whether it succeeded and whether the connection was encrypted when
\* it was sent.
ImplicitTlsPort == 465
Ports == {ImplicitTlsPort, 587, 25}

SessionError == "SMTP session failed"
Command(cmd, ok, tls) == [cmd |-> cmd, ok |-> ok, tls |-> tls]

\* a session that never asks for STARTTLS
StartTlsSkipped(port) == FALSE

\* `if port != 465: starttls_response = smtp.starttls()`
StartTlsWanted(port) == port # ImplicitTlsPort

SessionInit ==
    /\ SpoolInit
    /\ \E port \in Ports, d \in BOOLEAN, r \in {<<AddrR>>, <<AddrR, AddrS>>} :
          call = [op |-> "session", pc |-> "connect", port |-> port,
                  request_diagnostics |-> d, recipients |-> r, log |-> <<>>,
                  tls |-> FALSE, starttls_response |-> FALSE, raised |-> "",
                  reply |-> [kind |-> "none"], diagnostics |-> {}]

InSession(pc) == call.op = "session" /\ call.pc = pc

\* an exception inside the `with` block: __exit__ runs, then it propagates
SessionRaise(log) == [call EXCEPT !.pc = "quit", !.raised = SessionError, !.log = log]

\* lines 738-746: SMTP_SSL(smtp_server) on port 465, SMTP(smtp_server,
\* port=port) otherwise; a connection that fails raises out of the constructor
SessionConnect ==
    /\ InSession("connect")
    /\ \E ok \in BOOLEAN :
          LET ssl == call.port = ImplicitTlsPort
              log == <<Command(IF ssl THEN "connect_ssl" ELSE "connect", ok, ssl)>>
          IN call' = IF ok
                     THEN [call EXCEPT !.log = log, !.tls = ssl,
                                       !.pc = IF StartTlsWanted(call.port) THEN "starttls"
                                              ELSE "login"]
                     ELSE [call EXCEPT !.log = log, !.pc = "raised", !.raised = SessionError]
    /\ UNCHANGED SpoolVars

\* line 749: smtp.starttls() returns the server's 220 after the socket is
\* wrapped, and raises when the server does not offer or refuses it
SessionStartTls ==
    /\ InSession("starttls")
    /\ \E ok \in BOOLEAN :
          LET log == Append(call.log, Command("starttls", ok, call.tls)) IN
          call' = IF ok
                  THEN [call EXCEPT !.log = log, !.tls = TRUE, !.starttls_response = TRUE,
                                    !.pc = "login"]
                  ELSE SessionRaise(log)
    /\ UNCHANGED SpoolVars

\* line 750: smtp.login(username, password)
SessionLogin ==
    /\ InSession("login")
    /\ \E ok \in BOOLEAN :
          LET log == Append(call.log, Command("login", ok, call.tls)) IN
          call' = IF ok THEN [call EXCEPT !.log = log, !.pc = "send"]
                  ELSE SessionRaise(log)
    /\ UNCHANGED SpoolVars

\* line 751: smtp.send_message(...) returns the refused recipients, or raises
SessionSendMessage ==
    /\ InSession("send")
    /\ \E reply \in Replies(call.recipients) :
          LET log == Append(call.log, Command("send", reply.kind = "refused", call.tls)) IN
          call' = IF reply.kind = "refused"
                  THEN [call EXCEPT !.log = log, !.reply = reply,
                                    !.pc = IF call.request_diagnostics THEN "noop"
                                           ELSE "quit"]
                  ELSE [SessionRaise(log) EXCEPT !.reply = reply]
    /\ UNCHANGED SpoolVars

\* lines 753-761: the diagnostics, with the answer to NOOP
SessionDiagnostics ==
    /\ InSession("noop")
    /\ \E ok \in BOOLEAN :
          LET log == Append(call.log, Command("noop", ok, call.tls)) IN
          call' = IF ok
                  THEN [call EXCEPT !.log = log, !.pc = "quit",
                           !.diagnostics = {"server", "port", "esmtp_features", "noop"}
                              \cup (IF call.starttls_response THEN {"starttls"} ELSE {})]
                  ELSE SessionRaise(log)
    /\ UNCHANGED SpoolVars

\* the end of the `with` block: QUIT, then the return or the exception
SessionQuit ==
    /\ InSession("quit")
    /\ call' = [call EXCEPT !.log = Append(call.log, Command("quit", TRUE, call.tls)),
                            !.pc = IF call.raised # "" THEN "raised" ELSE "returned"]
    /\ UNCHANGED SpoolVars

SessionNext ==
    \/ SessionConnect
    \/ SessionStartTls
    \/ SessionLogin
    \/ SessionSendMessage
    \/ SessionDiagnostics
    \/ SessionQuit

SpecSession == SessionInit /\ [][SessionNext]_vars

\* ================================================================== claims
Pos(seq, x) == CHOOSE i \in 1..Len(seq) : seq[i] = x
Present(n) == n \in DOMAIN pending \cup DOMAIN sent \cup DOMAIN failed
\* the number of directories that hold a record of n (a complete one, in sent
\* and failed)
DirCount(n) ==
    (IF n \in DOMAIN pending THEN 1 ELSE 0) + (IF InSent(n) THEN 1 ELSE 0)
    + (IF InFailed(n) THEN 1 ELSE 0)
\* the for loop of a pass has gone through all of its paths
PassComplete == drain.pc = "loop" /\ drain.idx > Len(drain.files)
\* the drainer has just finished the move of drain.name
JustMoved == drain.pc = "loop" /\ drain.idx > 1 /\ ~drain.dry_run /\ drain.name # NoName

\* C1: whenever a transition removes an entry's pending file, the complete
\* terminal record of that transition is already in sent (move_to_sent) or in
\* failed (move_to_failed); so at every step, and after an interruption at any
\* step, the entry's file is in pending or in a terminal directory.
C1_TerminalBeforeDelete ==
    [][\A n \in DOMAIN pending :
          n \notin DOMAIN pending' =>
             /\ n = drain.name
             /\ IF drain.outcome.ok
                THEN InSent(n) /\ sent[n].text = drain.record
                ELSE InFailed(n) /\ failed[n].text = drain.record
             /\ Present(n)']_vars

\* a move has gone through: the entry left pending and its record is terminal
C1_Witness == JustMoved /\ drain.name \notin DOMAIN pending /\ Terminal(drain.name)

\* C2 as stated: after any sequence of the spool module's operations every
\* entry that was ever enqueued is in pending, sent or failed.
C2_NeverDiscarded == \A n \in DOMAIN enq : Present(n)

\* C2 as amended: every entry that was ever enqueued and was not deleted by a
\* discard(path) or reset_spool() call is in pending, sent or failed, whatever
\* enqueues, listings, transitions, drain passes and crashes happened.
C2_NeverSilentlyDiscarded == \A n \in DOMAIN enq \ hist.removed : Present(n)

\* after a crash, one enqueued entry has been deleted by a utility and another
\* has gone through its transition and is kept
C2_Witness ==
    /\ hist.crashes > 0
    /\ DOMAIN enq \cap hist.removed # {}
    /\ \E n \in DOMAIN enq \ hist.removed : n \notin DOMAIN pending /\ Terminal(n)

\* C3: when a drain pass without limit and without dry-run has completed, every
\* entry it listed is in exactly one of pending, sent, failed.
C3_ExactlyOneDirectory ==
    (PassComplete /\ ~drain.dry_run /\ drain.limit = NoLimit) =>
        \A n \in Range(drain.files) : DirCount(n) = 1

\* C4: every enqueue call returns with a pending file whose record holds the
\* payload and metadata passed and schema_version 1; after move_to_sent the
\* entry has no pending file and one sent file with payload, metadata and
\* queued_at unchanged and the result passed.
C4_RoundTrip ==
    /\ \A p \in Producers : prod[p].pc # "raised"
    /\ \A n \in DOMAIN enq :
          (n \in DOMAIN pending /\ Complete(pending[n])) =>
             /\ JsonLoads(pending[n]) = enq[n]
             /\ enq[n].schema_version = 1
    /\ (JustMoved /\ drain.outcome.ok /\ drain.name \in DOMAIN enq) =>
          LET n == drain.name IN
          /\ n \notin DOMAIN pending
          /\ InSent(n)
          /\ JsonLoads(sent[n]).payload = enq[n].payload
          /\ JsonLoads(sent[n]).metadata = enq[n].metadata
          /\ JsonLoads(sent[n]).queued_at = enq[n].queued_at
          /\ JsonLoads(sent[n]).result = drain.outcome.result

\* C5: no failure of one entry leaves the drain loop, and an entry whose
\* delivery attempt failed is in failed with the error text.
C5_BadEntryNeverBlocks ==
    /\ drain.pc # "raised"
    /\ (JustMoved /\ ~drain.outcome.ok) =>
          /\ InFailed(drain.name)
          /\ JsonLoads(failed[drain.name]).error = drain.outcome.error

\* C6: a pass with limit n >= 0 (or no limit) over a listing of k pending files
\* works on the first min(n, k) of the listing in order (all k without limit):
\* when the pass has ended, by returning or by an exception, it has processed
\* exactly min(n, k) of them; every processed one has left pending for a
\* terminal directory unless the pass is a dry run, and the other
\* k - min(n, k) are still in pending with their records as enqueued.
C6_PassProcessesMin ==
    LET k == Len(drain.listing)
        m == IF drain.limit = NoLimit THEN k ELSE Min(drain.limit, k)
    IN (drain.pc \in {"loop", "exec", "move", "raised"} /\ drain.limit >= 0) =>
          /\ drain.files = SubSeq(drain.listing, 1, m)
          /\ drain.count = drain.idx - 1
          /\ (PassComplete \/ drain.pc = "raised") => drain.count = m
          /\ \A i \in 1..drain.count :
                drain.dry_run \/ (drain.listing[i] \notin DOMAIN pending
                                  /\ Terminal(drain.listing[i]))
          /\ \A i \in (m + 1)..k :
                /\ drain.listing[i] \in DOMAIN pending
                /\ drain.listing[i] \in DOMAIN enq =>
                      pending[drain.listing[i]].text = enq[drain.listing[i]]

\* The same for the passes that no exception ends: what C6 says holds of every
\* pass that runs through its loop.
LimitTakesPrefix ==
    LET k == Len(drain.listing)
        m == IF drain.limit = NoLimit THEN k ELSE Min(drain.limit, k)
    IN (drain.pc \in {"loop", "exec", "move"} /\ drain.limit >= 0) =>
          /\ drain.files = SubSeq(drain.listing, 1, m)
          /\ drain.count = drain.idx - 1
          /\ drain.count <= m
          /\ PassComplete => drain.count = m
          /\ \A i \in 1..drain.count :
                drain.dry_run \/ (drain.listing[i] \notin DOMAIN pending
                                  /\ Terminal(drain.listing[i]))
          /\ \A i \in (m + 1)..k :
                /\ drain.listing[i] \in DOMAIN pending
                /\ drain.listing[i] \in DOMAIN enq =>
                      pending[drain.listing[i]].text = enq[drain.listing[i]]

\* C7: iter_pending lists the pending entries in the order their enqueues
\* returned.
C7_ListingIsEnqueueOrder ==
    LET files == IterPending(pending, NoLimit) IN
    \A i \in 1..Len(files) : \A j \in 1..Len(files) :
        (i < j /\ files[i] \in Range(enqOrder) /\ files[j] \in Range(enqOrder)) =>
            Pos(enqOrder, files[i]) < Pos(enqOrder, files[j])

C9_RedriveIdempotent == hist.resent = {} /\ hist.clobbered = {}

\* C10: every text the drainer reads from pending is a complete record.
C10_NoPartialRead == Complete(drain.read)

\* the drainer is inside a pass
InPass == drain.pc \in {"loop", "exec", "move"}

RECURSIVE ReplaceBraced(_, _)
\* text with every "${name}" whose name is in variables replaced by its value,
\* and everything else as it is
ReplaceBraced(s, variables) ==
    IF s = <<>> THEN <<>>
    ELSE IF Head(s) = "$" /\ BracedAt(Tail(s))
    THEN LET id == IdRun(Drop(s, 2)) IN
         (IF id \in DOMAIN variables THEN variables[id]
          ELSE <<"$", "{">> \o id \o <<"}">>)
         \o ReplaceBraced(Drop(s, Len(id) + 3), variables)
    ELSE <<Head(s)>> \o ReplaceBraced(Tail(s), variables)

\* C17: render(text, {}) is text; for a non-empty dict the result is text with
\* every "${name}" of a known name replaced by its value, every other
\* placeholder and all other text as it was.
C17_RenderOnlyReplacesKnown ==
    (call.op = "render" /\ call.pc = "done") =>
        /\ DOMAIN call.variables = {} => call.out = call.text
        /\ call.out = ReplaceBraced(call.text, call.variables)

\* What holds of the rendering: with an empty dict the text comes back as it
\* is, and a text without "$" comes back as it is with any dict.
RenderKeepsPlainText ==
    (call.op = "render" /\ call.pc = "done") =>
        /\ DOMAIN call.variables = {} => call.out = call.text
        /\ (\A i \in 1..Len(call.text) : call.text[i] # "$") => call.out = call.text

\* the lines of the invite with a given key
LinesOf(key) == SelectSeq(call.lines, LAMBDA l : l.key = key)
InviteDone == call.op = "invite" /\ call.pc = "done"

\* C15: an event whose end, as an instant, is not after its start is rejected
\* with the calendar error; for every other event the invite has one DTSTART
\* and one DTEND line, and the DTEND value read back is later than the DTSTART
\* value read back.
C15_InviteOrdersStartEnd ==
    InviteDone =>
        LET start == ApplyTimezone(call.event.start, call.event.timezone)
            end == ApplyTimezone(call.event.end, call.event.timezone)
        IN IF Utc(end) <= Utc(start)
           THEN call.raised = CalendarError
           ELSE /\ call.raised = ""
                /\ Len(LinesOf("DTSTART")) = 1
                /\ Len(LinesOf("DTEND")) = 1
                /\ ParseIcsDatetime(LinesOf("DTEND")[1].value)
                      > ParseIcsDatetime(LinesOf("DTSTART")[1].value)

\* What holds of the invite: an event whose end does not compare greater than
\* its start is rejected, every other one gets one DTSTART and one DTEND line.
InviteHasOneStartOneEnd ==
    InviteDone =>
        IF DtLessEq(ApplyTimezone(call.event.end, call.event.timezone),
                    ApplyTimezone(call.event.start, call.event.timezone))
        THEN call.raised = CalendarError
        ELSE /\ call.raised = ""
             /\ Len(LinesOf("DTSTART")) = 1
             /\ Len(LinesOf("DTEND")) = 1

\* the addresses the attendee lines are made from: the event's attendees, or
\* the deduplicated to + cc when the event has none
AttendeeSource ==
    IF call.event.attendees # <<>>
    THEN [i \in DOMAIN call.event.attendees |-> call.event.attendees[i].email]
    ELSE DictFromKeys(call.event.to \o call.event.cc)

RECURSIVE FirstByKey(_, _)
\* the non-empty addresses of a list whose lower-cased form did not occur
\* before, in order
FirstByKey(emails, seen) ==
    IF emails = <<>> THEN <<>>
    ELSE IF Head(emails) = <<>> \/ Lower(Head(emails)) \in seen
    THEN FirstByKey(Tail(emails), seen)
    ELSE <<Head(emails)>> \o FirstByKey(Tail(emails), seen \cup {Lower(Head(emails))})

Mailtos == [i \in DOMAIN LinesOf("ATTENDEE") |-> LinesOf("ATTENDEE")[i].mailto]

\* C16 as stated: the invite has one ATTENDEE line per distinct lower-cased
\* non-empty address of the attendees (of to + cc when the event has none), in
\* first-occurrence order; an address that is in bcc only is on no ATTENDEE
\* line made from the recipients.
C16_AttendeesDeduplicated ==
    (InviteDone /\ call.raised = "") =>
        /\ Mailtos = FirstByKey(AttendeeSource, {})
        /\ call.event.attendees = <<>> =>
              \A j \in DOMAIN Mailtos :
                 Mailtos[j] \in Range(call.event.to) \cup Range(call.event.cc)

\* C16 as amended: the same with every address stripped of surrounding
\* whitespace first (an address that is only whitespace counts as empty); an
\* address that is in bcc only is on no ATTENDEE line made from the recipients.
C16_AttendeesDeduplicatedStripped ==
    (InviteDone /\ call.raised = "") =>
        /\ Mailtos = FirstByKey([i \in DOMAIN AttendeeSource |-> Strip(AttendeeSource[i])], {})
        /\ call.event.attendees = <<>> =>
              \A j \in DOMAIN Mailtos :
                 Mailtos[j] \in {Strip(e) : e \in Range(call.event.to) \cup Range(call.event.cc)}

\* an invite for attendees that hold one address in two spellings has one line
\* for it
C16_Witness ==
    /\ InviteDone
    /\ call.raised = ""
    /\ Len(call.event.attendees) = 2
    /\ call.event.attendees[1].email # call.event.attendees[2].email
    /\ Lower(call.event.attendees[1].email) = Lower(call.event.attendees[2].email)
    /\ call.event.attendees[1].email # <<>>
    /\ Len(LinesOf("ATTENDEE")) = 1

\* a call of the send operation or of the composer has ended
CallEnded == InCall /\ call.pc \in {"raised", "returned", "built"}
Reads == {i \in DOMAIN call.io : call.io[i].op = "read"}
Sessions == {i \in DOMAIN call.io : call.io[i].op = "connect"}
\* the transport has refused some recipients and not all
PartialRefusal ==
    /\ call.op = "send"
    /\ call.reply.kind = "refused"
    /\ DOMAIN call.reply.refused # {}

\* C12: when the transport refuses some but not all recipients, the send
\* returns a result, raises nothing, and the result's refused map is the
\* transport's.
C12_PartialRefusalIsResult ==
    (PartialRefusal /\ CallEnded) =>
        /\ call.pc = "returned"
        /\ call.raised = ""
        /\ call.refused = call.reply.refused

\* C13: for an empty `to`, a call of the send operation and a call of the
\* composer touch no file and open no session, and end with the recipient
\* error.
C13_EmptyToFailsBeforeIo ==
    (InCall /\ call.args.to = <<>>) =>
        /\ call.io = <<>>
        /\ CallEnded => call.raised = RecipientError

\* What holds for an empty `to`: the send operation ends with the recipient
\* error before it touches a file or opens a session.
SendRejectsEmptyTo ==
    (call.op = "send" /\ call.args.to = <<>>) =>
        /\ call.io = <<>>
        /\ CallEnded => call.raised = RecipientError

\* C14: when a call ends with the missing-body error or with the calendar
\* range error, it has read no file and opened no session.
C14_ValidationBeforeIo ==
    (CallEnded /\ call.raised \in {MissingBodyError, CalendarError}) =>
        Reads = {} /\ Sessions = {}

\* What holds of the order: no call that ends with a validation error has
\* opened a transport session.
ValidationBeforeSession ==
    (CallEnded /\ call.raised \in {RecipientError, MissingBodyError, CalendarError,
                                   InlineNeedsHtml}) => Sessions = {}

\* C19: when the transport has taken the message and answered with its refused
\* map, the send has transmitted to to + cc + bcc, deduplicated in
\* first-occurrence order, and returns a result in which accepted is the
\* recipients that are not refused, in order: accepted and the keys of refused
\* are disjoint and together are the recipients.
C19_ResultPartitionsRecipients ==
    (call.op = "send" /\ CallEnded /\ call.reply.kind = "refused") =>
        /\ call.pc = "returned"
        /\ call.recipients = DictFromKeys(call.args.to \o call.args.cc \o call.args.bcc)
        /\ call.refused = call.reply.refused
        /\ call.accepted = SelectSeq(call.recipients, LAMBDA a : a \notin DOMAIN call.refused)
        /\ Range(call.accepted) \cap DOMAIN call.refused = {}
        /\ Range(call.accepted) \cup DOMAIN call.refused = Range(call.recipients)

\* What holds of the results that are returned: the recipients are the
\* deduplicated to + cc + bcc and accepted is all of them, nothing refused.
ReturnedResultAcceptsAll ==
    (call.op = "send" /\ call.pc = "returned") =>
        /\ call.recipients = DictFromKeys(call.args.to \o call.args.cc \o call.args.bcc)
        /\ call.accepted = call.recipients
        /\ DOMAIN call.refused = {}

\* the bodies C20 describes, from the arguments and the template files found
RenderedText == SafeTemplate(call.files.text.text, call.args.template_variables)
RenderedHtml == SafeTemplate(call.files.html.text, call.args.template_variables)
ExpectedPlain ==
    IF call.args.body_template # <<>>
    THEN IF call.files.text.exists /\ RenderedText # <<>> THEN RenderedText
         ELSE call.args.body
    ELSE SafeTemplate(call.args.body, call.args.template_variables)
ExpectedHtml ==
    IF call.args.body_template # <<>>
    THEN IF call.files.html.exists /\ RenderedHtml # <<>> THEN RenderedHtml
         ELSE call.args.html_body.str
    ELSE SafeTemplate(call.args.html_body.str, call.args.template_variables)

\* C20: with a body_template (whose files are found) the rendered text and
\* HTML replace the literal body and html_body only where they are non-empty;
\* without one the literal body and html_body are rendered with the variables;
\* the composer goes on with these bodies when the plain one is non-empty and
\* fails with the missing-body error when it is empty.
C20_BodyResolution ==
    /\ (InCall /\ call.pc = "signature") =>
          /\ call.plain_body = ExpectedPlain
          /\ call.html_content.str = ExpectedHtml
          /\ ExpectedPlain # <<>>
    /\ (InCall /\ call.pc = "raised" /\ call.raised = MissingBodyError) =>
          ExpectedPlain = <<>>
    /\ (InCall /\ call.pc = "raised" /\ call.raised = TemplateNotFound) =>
          /\ call.args.body_template # <<>>
          /\ ~call.files.text.exists
          /\ ~call.files.html.exists

\* a template whose text renders empty and whose HTML renders non-empty: the
\* literal body is kept and the literal html_body is replaced
C20_Witness ==
    /\ InCall
    /\ call.pc = "signature"
    /\ call.args.body_template # <<>>
    /\ call.files.text.exists
    /\ RenderedText = <<>>
    /\ call.plain_body = call.args.body
    /\ call.files.html.exists
    /\ call.args.html_body.str # RenderedHtml
    /\ call.html_content.str = RenderedHtml

\* the signature C21 describes, from the arguments and the signature files
\* found: rendered with signature_variables, or with template_variables when
\* there are none
SignatureVarsExpected ==
    IF call.args.signature_variables = EmptyVars THEN call.args.template_variables
    ELSE call.args.signature_variables
SignatureText == SafeTemplate(call.signature_files.text.text, SignatureVarsExpected)
SignatureHtml == SafeTemplate(call.signature_files.html.text, SignatureVarsExpected)

\* C21: with a signature_template (whose files are found) the pair is rendered
\* with signature_variables, or with template_variables when there are none.
\* A non-empty text signature ends the plain body: after a body that is not
\* blank it follows the body (without its trailing whitespace) and an empty
\* line, and it is the whole plain body when the body is blank. A non-empty
\* HTML signature ends the HTML part after a break, or is the HTML part when
\* the message had none. An empty or missing signature changes nothing.
C21_SignatureMerge ==
    (InCall /\ call.pc = "attach" /\ call.args.signature_template # <<>>) =>
        /\ call.plain_body =
              IF SignatureText = <<>> THEN ExpectedPlain
              ELSE IF Strip(ExpectedPlain) # <<>>
              THEN RStrip(ExpectedPlain) \o <<"\n", "\n">> \o SignatureText
              ELSE SignatureText
        /\ call.html_part =
              IF SignatureHtml = <<>>
              THEN (IF ExpectedHtml = <<>> THEN NoneStr ELSE Some(ExpectedHtml))
              ELSE IF ExpectedHtml = <<>> THEN Some(SignatureHtml)
              ELSE Some(RStrip(ExpectedHtml) \o HtmlBreak \o SignatureHtml)

\* a signature rendered with its own variables, not the message's, after a
\* body that ends in whitespace, in a message without an HTML body
C21_Witness ==
    /\ InCall
    /\ call.pc = "attach"
    /\ call.args.signature_template # <<>>
    /\ call.args.signature_variables # EmptyVars
    /\ call.args.template_variables # EmptyVars
    /\ SignatureText = <<"Z">>
    /\ call.args.body = <<"B", " ">>
    /\ call.plain_body = <<"B", "\n", "\n", "Z">>
    /\ call.args.html_body.none
    /\ call.html_part = Some(<<"Z">>)


\* the composer has resolved body and signature, and is at or past the
\* attachments
PastSignature ==
    /\ InCall
    /\ call.pc \notin {"check_to", "credentials", "body", "signature"}
    /\ call.raised \notin {RecipientError, CredentialsError, MissingBodyError,
                           TemplateNotFound, SignatureNotFound}
\* the inline images step is over
PastInline == PastSignature /\ call.pc \notin {"attach", "inline"}
\* the message has an HTML part: from html_body or the template, or from an
\* HTML signature
HtmlExpected == ExpectedHtml # <<>> \/ SignatureHtml # <<>>

\* C22 as stated: a composition with inline images whose message has no HTML
\* part after body and signature ends with the inline-requires-HTML error;
\* one whose message has an HTML part, or that has no inline images, never
\* ends with it.
C22_InlineRequiresHtml ==
    /\ (PastInline /\ call.args.inline_images # <<>> /\ ~HtmlExpected) =>
          call.raised = InlineNeedsHtml
    /\ (PastSignature /\ call.raised = InlineNeedsHtml) =>
          call.args.inline_images # <<>> /\ ~HtmlExpected

\* C22 as amended: the same for the compositions whose attachments were all
\* found; a missing attachment is reported first.
C22_InlineRequiresHtmlOnceAttached ==
    /\ (PastInline /\ call.args.inline_images # <<>> /\ ~HtmlExpected
           /\ call.raised # AttachmentNotFound) =>
          call.raised = InlineNeedsHtml
    /\ (PastSignature /\ call.raised = InlineNeedsHtml) =>
          call.args.inline_images # <<>> /\ ~HtmlExpected

\* a message with inline images whose only HTML is the signature's has got
\* through the inline images step
C22_Witness ==
    /\ PastInline
    /\ call.raised = ""
    /\ call.args.inline_images # <<>>
    /\ call.args.html_body.none
    /\ call.args.body_template = <<>>
    /\ SignatureHtml # <<>>
    /\ call.html_part = Some(SignatureHtml)

\* the places of a command in the log of the session
Commands(cmd) == {i \in DOMAIN call.log : call.log[i].cmd = cmd}
\* command i of the log comes after a successful command cmd
After(i, cmd) == \E j \in Commands(cmd) : j < i /\ call.log[j].ok

\* C23: on port 465 the session starts with implicit TLS and has no STARTTLS;
\* on every other port it starts in plaintext and a login comes only after a
\* STARTTLS that succeeded; the message is sent only after a login that
\* succeeded; NOOP is sent only after the message was taken and only when
\* diagnostics were asked for; no login is sent on an unencrypted connection.
C23_SessionOrdering ==
    call.op = "session" =>
        /\ call.port = ImplicitTlsPort =>
              /\ Commands("starttls") = {} /\ Commands("connect") = {}
              /\ call.log # <<>> => call.log[1] = Command("connect_ssl", call.log[1].ok, TRUE)
        /\ call.port # ImplicitTlsPort =>
              /\ Commands("connect_ssl") = {}
              /\ call.log # <<>> => call.log[1] = Command("connect", call.log[1].ok, FALSE)
              /\ \A i \in Commands("login") : After(i, "starttls")
        /\ \A i \in Commands("send") : After(i, "login")
        /\ \A i \in Commands("noop") : call.request_diagnostics /\ After(i, "send")
        /\ \A i \in Commands("login") : call.log[i].tls
        /\ (call.pc = "returned" /\ call.request_diagnostics) => Commands("noop") # {}

\* a session on another port than 465 with diagnostics has returned: plaintext
\* connection, STARTTLS, login, message, NOOP
C23_Witness ==
    /\ call.op = "session"
    /\ call.pc = "returned"
    /\ call.port # ImplicitTlsPort
    /\ call.request_diagnostics
    /\ [i \in 1..5 |-> call.log[i].cmd] = <<"connect", "starttls", "login", "send", "noop">>
    /\ ~call.log[1].tls
    /\ call.log[3].tls
    /\ "starttls" \in call.diagnostics

\* C24: under the drain loop every entry whose enqueue has returned leaves
\* pending in the end and has a complete record in sent or in failed.
C24_DrainLiveness ==
    \A n \in Names :
        (n \in DOMAIN enq) ~> (n \notin DOMAIN pending /\ Terminal(n))

\* What holds of the loop: in the runs in which no exception ends the script,
\* every entry whose enqueue has returned leaves pending and gets its record.
DrainLivenessWhileRunning ==
    \A n \in Names :
        [](drain.pc # "raised") =>
            ((n \in DOMAIN enq) ~> (n \notin DOMAIN pending /\ Terminal(n)))

\* the paths of the running pass that it has not come to yet
Ahead ==
    {drain.files[i] : i \in (IF drain.pc = "loop" THEN drain.idx ELSE drain.idx + 1)
                              ..Len(drain.files)}

\* C25: with one drainer and no process interrupted, no entry has its
\* delivery attempted more than once, over any number of passes; once its
\* attempt and the move after it are over the entry is not in pending and has
\* its record in sent or in failed, and no pass has an attempted entry ahead
\* of it.
C25_AttemptedOnce ==
    hist.crashes = 0 =>
        /\ \A n \in Names : hist.attempts[n] <= 1
        /\ \A n \in Names :
              (hist.attempts[n] = 1 /\ ~(drain.pc = "move" /\ drain.name = n)) =>
                  n \notin DOMAIN pending /\ Terminal(n)
        /\ InPass => \A n \in Ahead : hist.attempts[n] = 0

\* a second pass has processed an entry, after a first pass that processed
\* another one; one attempt ended in sent and one in failed
C25_Witness ==
    /\ hist.crashes = 0
    /\ hist.passes = 2
    /\ drain.pc = "loop"
    /\ drain.idx = 2
    /\ ~drain.dry_run
    /\ \E n, m \in Names :
          /\ n # m
          /\ drain.name = m
          /\ hist.attempts[n] = 1 /\ hist.attempts[m] = 1
          /\ n \notin Range(drain.listing)
          /\ {InSent(n), InSent(m)} = {TRUE, FALSE}
          /\ {InFailed(n), InFailed(m)} = {TRUE, FALSE}

\* C26: a step of a dry-run pass delivers nothing and leaves pending, sent
\* and failed as they are; a step over an entry counts it as processed; and
\* while the pass runs every entry it listed is still in pending, to be listed
\* by the next pass.
C26_DryRunChangesNothing ==
    [][(drain.dry_run /\ InPass) =>
          /\ drain' # drain =>
                /\ UNCHANGED <<pending, sent, failed, tx>>
                /\ hist'.attempts = hist.attempts
                /\ drain'.pc \in {"loop", "idle", "raised"}
                /\ drain'.pc = "loop" =>
                      /\ drain'.count = drain.count + 1
                      /\ drain'.idx = drain.idx + 1
          /\ drain.count = drain.idx - 1
          /\ PassComplete => drain.count = Len(drain.listing)
          /\ Range(drain.listing) \subseteq DOMAIN pending]_vars

\* a dry-run pass has gone through two entries: both are counted, both are in
\* pending, nothing is in sent or failed, nothing was attempted
C26_Witness ==
    /\ drain.dry_run
    /\ PassComplete
    /\ drain.count = 2
    /\ hist.passes = 2
    /\ Range(drain.listing) \subseteq DOMAIN pending
    /\ sent = EmptyDir /\ failed = EmptyDir
    /\ \A n \in Names : hist.attempts[n] = 0

\* What holds of the queue operation: an entry with an empty `to` is written
\* to pending like any other; no session is ever opened for it, it never gets
\* a record in sent, and the record it gets in failed when it is drained
\* carries the recipient error.
QueueDefersRecipientCheck ==
    \A n \in DOMAIN enq :
        enq[n].payload.to = <<>> =>
            /\ tx[n] = 0
            /\ n \notin DOMAIN sent
            /\ InFailed(n) => JsonLoads(failed[n]).error = RecipientError
            /\ (n \notin DOMAIN pending /\ hist.removed = {}) => InFailed(n)

\* C27: no call of the queue operation is rejected, whatever its payload; an
\* entry with an empty `to` is rejected only when it is drained, where it ends
\* in failed with the recipient error and without a session; and the
\* pending_count the queue tool returns is at least 1 and counts the entry it
\* has just written.
C27_QueueDefersValidation ==
    /\ \A p \in Producers : prod[p].pc # "raised"
    /\ QueueDefersRecipientCheck
    /\ hist.uncounted = {}
    /\ hist.zero_count = {}

SentFields == {"sent_at", "result"}
FailedFields == {"failed_at", "error"}

\* every complete record in sent has sent_at and result and neither failed_at
\* nor error, every complete record in failed the reverse, and a complete
\* pending record has none of the four
RecordsHaveOneOutcome ==
    /\ \A n \in DOMAIN sent : Complete(sent[n]) =>
          /\ SentFields \subseteq DOMAIN JsonLoads(sent[n])
          /\ FailedFields \cap DOMAIN JsonLoads(sent[n]) = {}
    /\ \A n \in DOMAIN failed : Complete(failed[n]) =>
          /\ FailedFields \subseteq DOMAIN JsonLoads(failed[n])
          /\ SentFields \cap DOMAIN JsonLoads(failed[n]) = {}
    /\ \A n \in DOMAIN pending : Complete(pending[n]) =>
          (SentFields \cup FailedFields) \cap DOMAIN JsonLoads(pending[n]) = {}

\* C18: the records carry one outcome each, a pending file keeps its text as
\* long as it is there, and a complete record in sent or failed is never
\* changed or replaced by a later step.
C18_ResolvedRecordIsFinal ==
    [][/\ RecordsHaveOneOutcome
       /\ \A n \in DOMAIN pending \cap DOMAIN pending' :
             pending'[n].text = pending[n].text
       /\ \A n \in DOMAIN sent :
             Complete(sent[n]) => (n \in DOMAIN sent' /\ sent'[n] = sent[n])
       /\ \A n \in DOMAIN failed :
             Complete(failed[n]) => (n \in DOMAIN failed' /\ failed'[n] = failed[n])]_vars
====
